---- MODULE Spec2Model ----
(***************************************************************************)
(* The forecasting and supplier-ranking core of the inventory system:      *)
(* src/inventory.py (Product, Supplier, recommend_best_suppliers,          *)
(* get_weather_forecast) as called by src/app.py.                          *)
(***************************************************************************)
EXTENDS Integers, Sequences, FiniteSets, TLC

VARIABLES
    name,             \* Product.name
    shelf_life_days,  \* Product.shelf_life_days
    inventory,        \* Product.inventory
    sales_history,    \* Product.sales_history: a list of (timestamp, quantity)
    clock,            \* datetime.now(): a logical clock, read by add_sale
    suppliers,        \* the Supplier objects, in registry order
    calls,            \* history: per supplier, the arguments of its record_delivery calls
    last,             \* the call that ran last, with its arguments
    ret               \* what that call returned or raised

vars == << name, shelf_life_days, inventory, sales_history, clock, suppliers, calls, last, ret >>

product_vars == << name, shelf_life_days, inventory, sales_history, clock >>

\* ---------------------------------------------------------------------------
\* Python float arithmetic (IEEE-754 binary64, round-to-nearest-even).
\* A natural number is a little-endian sequence of limbs in 0..Base-1 with no
\* high zero limb (<< >> is zero): TLC integers are 32 bits wide and a product
\* of two 53-bit significands needs 106.
\* ---------------------------------------------------------------------------
Base == 2^15

LimbBits == 15

Precision == 53

Min2(x, y) == IF x <= y THEN x ELSE y

Max2(x, y) == IF x >= y THEN x ELSE y

RECURSIVE BNorm(_)
BNorm(a) ==
    IF a = << >> THEN a
    ELSE IF a[Len(a)] = 0 THEN BNorm(SubSeq(a, 1, Len(a) - 1)) ELSE a

BLimb(a, i) == IF i >= 1 /\ i <= Len(a) THEN a[i] ELSE 0

BFromInt(n) == BNorm(<< n % Base, (n \div Base) % Base, n \div (Base * Base) >>)

BToInt(a) == BLimb(a, 1) + BLimb(a, 2) * Base + BLimb(a, 3) * Base * Base

RECURSIVE BAddC(_, _, _, _)
BAddC(a, b, i, c) ==
    IF i > Len(a) /\ i > Len(b) THEN (IF c = 0 THEN << >> ELSE << c >>)
    ELSE LET s == BLimb(a, i) + BLimb(b, i) + c
         IN  << s % Base >> \o BAddC(a, b, i + 1, s \div Base)

BAdd(a, b) == BNorm(BAddC(a, b, 1, 0))

RECURSIVE BSubC(_, _, _, _)
BSubC(a, b, i, c) ==
    IF i > Len(a) THEN << >>
    ELSE LET d == BLimb(a, i) - BLimb(b, i) - c
         IN  << IF d < 0 THEN d + Base ELSE d >>
                 \o BSubC(a, b, i + 1, IF d < 0 THEN 1 ELSE 0)

BSub(a, b) == BNorm(BSubC(a, b, 1, 0))

RECURSIVE BCmpAt(_, _, _)
BCmpAt(a, b, i) ==
    IF i = 0 THEN 0
    ELSE IF a[i] > b[i] THEN 1
    ELSE IF a[i] < b[i] THEN -1
    ELSE BCmpAt(a, b, i - 1)

BCmp(a, b) ==
    IF Len(a) > Len(b) THEN 1
    ELSE IF Len(a) < Len(b) THEN -1
    ELSE BCmpAt(a, b, Len(a))

RECURSIVE BMulSmallC(_, _, _, _)
BMulSmallC(a, k, i, c) ==
    IF i > Len(a) THEN (IF c = 0 THEN << >> ELSE << c >>)
    ELSE LET p == a[i] * k + c
         IN  << p % Base >> \o BMulSmallC(a, k, i + 1, p \div Base)

BMulSmall(a, k) == BNorm(BMulSmallC(a, k, 1, 0))

RECURSIVE BMul(_, _)
BMul(a, b) ==
    IF a = << >> \/ b = << >> THEN << >>
    ELSE BAdd(BMulSmall(a, Head(b)), << 0 >> \o BMul(a, Tail(b)))

BShl(a, k) ==
    IF a = << >> THEN a
    ELSE [i \in 1..(k \div LimbBits) |-> 0] \o BMulSmall(a, 2^(k % LimbBits))

BShr(a, k) ==
    LET d == k \div LimbBits
        r == k % LimbBits
        n == Len(a) - d
    IN  IF n <= 0 THEN << >>
        ELSE BNorm([i \in 1..n |->
                 (a[i + d] \div 2^r) + (BLimb(a, i + d + 1) % 2^r) * 2^(LimbBits - r)])

RECURSIVE BitLenInt(_)
BitLenInt(n) == IF n = 0 THEN 0 ELSE 1 + BitLenInt(n \div 2)

BBitLen(a) ==
    IF a = << >> THEN 0 ELSE LimbBits * (Len(a) - 1) + BitLenInt(a[Len(a)])

BBit(a, i) == (BLimb(a, i \div LimbBits + 1) \div 2^(i % LimbBits)) % 2

BLowNonZero(a, k) ==
    \/ \E j \in 1..Min2(Len(a), k \div LimbBits) : a[j] # 0
    \/ BLimb(a, k \div LimbBits + 1) % 2^(k % LimbBits) # 0

\* A float is s * m * 2^e with s in {1, -1} and m a 53-bit significand
\* (2^52 <= m < 2^53), or zero (m = << >>).
FZero == [s |-> 1, m |-> << >>, e |-> 0]

\* s * m * 2^e with m of 53 bits, or of 54 after a carry out of the rounding.
FPack(s, m, e) ==
    IF BBitLen(m) > Precision THEN [s |-> s, m |-> BShr(m, 1), e |-> e + 1]
    ELSE [s |-> s, m |-> m, e |-> e]

\* Round to nearest, ties to even: q is big without its k low bits.
RoundsUp(big, k, q, sticky) ==
    /\ BBit(big, k - 1) = 1
    /\ (sticky \/ BLowNonZero(big, k - 1) \/ BBit(q, 0) = 1)

FRoundQ(s, big, e, sticky, k, q) ==
    FPack(s, IF RoundsUp(big, k, q, sticky) THEN BAdd(q, << 1 >>) ELSE q, e + k)

FRoundL(s, big, e, sticky, L) ==
    IF L <= Precision
    THEN [s |-> s, m |-> BShl(big, Precision - L), e |-> e - (Precision - L)]
    ELSE FRoundQ(s, big, e, sticky, L - Precision, BShr(big, L - Precision))

\* The float nearest to s * big * 2^e (ties to even); sticky says that the
\* exact value lies strictly above big * 2^e (a division's remainder).
FRound(s, big, e, sticky) ==
    IF big = << >> THEN FZero ELSE FRoundL(s, big, e, sticky, BBitLen(big))

\* float(n) of an int, exact below 2^31.
FFromInt(n) ==
    FRound(IF n < 0 THEN -1 ELSE 1, BFromInt(IF n < 0 THEN -n ELSE n), 0, FALSE)

\* -a; zero keeps its one representation.
FNeg(a) == IF a.m = << >> THEN a ELSE [a EXCEPT !.s = -a.s]

FMul(a, b) ==
    IF a.m = << >> \/ b.m = << >> THEN FZero
    ELSE FRound(a.s * b.s, BMul(a.m, b.m), a.e + b.e, FALSE)

\* Long division in base Base (Knuth's algorithm D): d has DivLimbs limbs, the
\* top one >= Base / 2, and r < d * Base.  The estimate from the top limbs is
\* never below the digit floor(r / d), and FixDigit lowers it to the digit.
DivLimbs == 4

RECURSIVE FixDigit(_, _, _)
FixDigit(r, d, qh) ==
    IF BCmp(BMulSmall(d, qh), r) > 0 THEN FixDigit(r, d, qh - 1) ELSE qh

DivDigit(r, d) ==
    FixDigit(r, d, Min2(Base - 1,
        (BLimb(r, Len(d) + 1) * Base + BLimb(r, Len(d))) \div d[Len(d)]))

\* The quotient gains the digit dg; the remainder moves up one limb.
DivStep(st, d, dg) ==
    [q |-> << dg >> \o st.q, r |-> BShl(BSub(st.r, BMulSmall(d, dg)), LimbBits)]

\* n more digits of the quotient st.q of a division by d with remainder st.r.
RECURSIVE DivDigits(_, _, _)
DivDigits(st, d, n) ==
    IF n = 0 \/ st.r = << >> THEN [q |-> [i \in 1..n |-> 0] \o st.q, r |-> st.r]
    ELSE DivDigits(DivStep(st, d, DivDigit(st.r, d)), d, n - 1)

FDivQ(s, e, qr) == FRound(s, BNorm(qr.q), e, qr.r # << >>)

\* a / b; b is not zero (Python raises ZeroDivisionError there).  The quotient
\* of the significands is computed to DivLimbs limbs after the point, then
\* rounded.
FDiv(a, b) ==
    IF a.m = << >> THEN FZero
    ELSE FDivQ(a.s * b.s, a.e - b.e - DivLimbs * LimbBits,
               DivDigits([q |-> << >>, r |-> BShl(a.m, DivLimbs * LimbBits - Precision)],
                         BShl(b.m, DivLimbs * LimbBits - Precision), DivLimbs + 1))

\* sa * A + sb * B, as a sign and a magnitude.
AddSign(sa, A, sb, B) == IF sa = sb \/ BCmp(A, B) >= 0 THEN sa ELSE sb

AddMagnitude(sa, A, sb, B) ==
    IF sa = sb THEN BAdd(A, B)
    ELSE IF BCmp(A, B) >= 0 THEN BSub(A, B) ELSE BSub(B, A)

FAddAligned(sa, A, sb, B, e) ==
    FRound(AddSign(sa, A, sb, B), AddMagnitude(sa, A, sb, B), e, FALSE)

\* a + b: the exact sum of the significands at the smaller exponent, rounded.
FAdd(a, b) ==
    IF a.m = << >> THEN b
    ELSE IF b.m = << >> THEN a
    ELSE FAddAligned(a.s, BShl(a.m, a.e - Min2(a.e, b.e)),
                     b.s, BShl(b.m, b.e - Min2(a.e, b.e)), Min2(a.e, b.e))

FSub(a, b) == FAdd(a, FNeg(b))

FSign(a) == IF a.m = << >> THEN 0 ELSE a.s

\* -1, 0 or 1 as a < b, a = b or a > b.
FCmp(a, b) == FSign(FSub(a, b))

\* int(a): truncation toward zero.
FTrunc(a) ==
    IF a.m = << >> THEN 0
    ELSE a.s * BToInt(IF a.e >= 0 THEN BShl(a.m, a.e) ELSE BShr(a.m, -a.e))

\* ---------------------------------------------------------------------------
\* Python values
\* ---------------------------------------------------------------------------
None == [none |-> TRUE]

Str(x) == [str |-> x]

Num(x) == [num |-> x]

\* bool(x) of a str or None: None and "" are falsy.
Truthy(x) == x # None /\ x # Str("")

\* A call's outcome: a returned value, or an exception that propagated.
Return(v) == [exc |-> "", val |-> v]

Raise(e) == [exc |-> e, val |-> 0]

\* float literals: the double nearest to the decimal.
F1_1 == FDiv(FFromInt(11), FFromInt(10))

F1_2 == FDiv(FFromInt(12), FFromInt(10))

F0_5 == FDiv(FFromInt(5), FFromInt(10))

F0_3 == FDiv(FFromInt(3), FFromInt(10))

F0_2 == FDiv(FFromInt(2), FFromInt(10))

\* sum(xs) of a list of ints.
RECURSIVE Sum(_)
Sum(xs) == IF xs = << >> THEN 0 ELSE Head(xs) + Sum(Tail(xs))

\* [s[1] for s in sales]: the quantities of (timestamp, quantity) pairs.
Quantities(sales) == [i \in 1..Len(sales) |-> sales[i][2]]

\* xs[-n:]
LastN(xs, n) == SubSeq(xs, Max2(1, Len(xs) - n + 1), Len(xs))

\* str.lower() on the product names in use.
Lower(n) ==
    CASE n = "Ice Cream" -> "ice cream"
      [] n = "JUICE"     -> "juice"
      [] n = "Apple"     -> "apple"
      [] OTHER           -> n

\* ---------------------------------------------------------------------------
\* get_weather_forecast: the HTTP exchange is the input `response`:
\*   [transport |-> "error"]                      requests.get raises
\*   [transport |-> "ok", status_code, json]      json = None: the body is not JSON
\* ---------------------------------------------------------------------------
get_weather_forecast(response) ==
    IF response.transport # "ok" THEN Raise("ConnectionError")
    ELSE IF response.json = None THEN Raise("JSONDecodeError")
    ELSE LET data == response.json
         IN  IF response.status_code # 200
             THEN Return([error |-> IF "message" \in DOMAIN data
                                    THEN data.message
                                    ELSE "Failed to fetch weather"])
             ELSE IF "main" \notin DOMAIN data THEN Raise("KeyError")
             ELSE IF "temp" \notin DOMAIN data.main
                     \/ "humidity" \notin DOMAIN data.main THEN Raise("KeyError")
             ELSE IF "weather" \notin DOMAIN data THEN Raise("KeyError")
             ELSE IF data.weather = << >> THEN Raise("IndexError")
             ELSE Return([temperature |-> data.main.temp,
                          humidity    |-> data.main.humidity,
                          weather     |-> data.weather[1].main,
                          description |-> data.weather[1].description])

\* ---------------------------------------------------------------------------
\* Product
\* ---------------------------------------------------------------------------
WindowSize == 30

TrendMinLen == 14

HeatSensitive == {"ice cream", "juice"}

HotAbove == 30

\* Lines 51-52: sum(s[1] for s in recent_sales) / len(recent_sales)
daily_average(qs) == FDiv(FFromInt(Sum(qs)), FFromInt(Len(qs)))

\* Lines 56-58, on the quantities qs of the recent window.
first_half(qs) == Sum(SubSeq(qs, 1, Len(qs) \div 2))

second_half(qs) == Sum(SubSeq(qs, Len(qs) \div 2 + 1, Len(qs)))

trend_factor(qs) ==
    IF first_half(qs) > 0
    THEN FDiv(FFromInt(second_half(qs)), FFromInt(first_half(qs)))
    ELSE FFromInt(1)

\* avg_sales with the trend applied only above TrendMinLen entries.
avg_sales_late_trend(qs) ==
    IF Len(qs) > TrendMinLen
    THEN FMul(daily_average(qs), trend_factor(qs))
    ELSE daily_average(qs)

\* Lines 51-61: avg_sales of the recent window, trend-adjusted.
avg_sales(qs) ==
    IF Len(qs) >= TrendMinLen
    THEN FMul(daily_average(qs), trend_factor(qs))
    ELSE daily_average(qs)

\* buffer_factor with the wider buffer from days = shelf_life_days on.
buffer_factor_early(days) == IF days >= shelf_life_days THEN F1_2 ELSE F1_1

\* Lines 63-66.
buffer_factor(days) == IF days > shelf_life_days THEN F1_2 ELSE F1_1

\* Lines 46-69: int(avg_sales * days * buffer_factor)
base_forecast(days) ==
    FTrunc(FMul(FMul(avg_sales(Quantities(LastN(sales_history, WindowSize))),
                     FFromInt(days)),
                buffer_factor(days)))

\* Lines 74-78, given the dict that get_weather_forecast returned.
heat_adjusted(forecast, weather) ==
    IF "temperature" \notin DOMAIN weather THEN Return(forecast)
    ELSE IF "num" \notin DOMAIN weather.temperature THEN Raise("TypeError")
    ELSE IF weather.temperature.num > HotAbove /\ Lower(name) \in HeatSensitive
    THEN Return(FTrunc(FMul(FFromInt(forecast), F1_2)))
    ELSE Return(forecast)

\* Lines 72-79: the outcome of the weather adjustment of a forecast.
weather_adjusted(forecast, location, fetched) ==
    IF ~Truthy(location) THEN Return(forecast)
    ELSE IF fetched.exc # "" THEN fetched
    ELSE heat_adjusted(forecast, fetched.val)

\* at_least_one without the clamp: `return forecast`.
at_least_one_unclamped(adjusted) == adjusted

\* Line 81: max(1, forecast), unless an exception is on its way out.
at_least_one(adjusted) ==
    IF adjusted.exc # "" THEN adjusted ELSE Return(Max2(1, adjusted.val))

\* Product.get_forecast(days, location); `response` is what the weather
\* service answers if it is asked.  An outcome.
get_forecast(days, location, response) ==
    IF sales_history = << >> THEN Return(0)
    ELSE IF LastN(sales_history, WindowSize) = << >> THEN Return(0)
    ELSE at_least_one(weather_adjusted(base_forecast(days), location,
                                       get_weather_forecast(response)))

NoResponse == [transport |-> "unused"]

\* order_for without the shelf-life cap of lines 97-98.
order_for_uncapped(forecast, days, current_stock_days, max_order) ==
    IF FCmp(current_stock_days, FFromInt(days)) >= 0 THEN 0
    ELSE Max2(0, forecast - inventory)

\* Lines 87-100, given the forecast of line 84.
order_for(forecast, days, current_stock_days, max_order) ==
    IF FCmp(current_stock_days, FFromInt(days)) >= 0 THEN 0
    ELSE IF FCmp(max_order, FFromInt(forecast - inventory)) < 0
    THEN Max2(0, FTrunc(max_order))
    ELSE Max2(0, forecast - inventory)

\* Line 87.
current_stock_days(forecast, days) ==
    IF forecast > 0
    THEN FDiv(FFromInt(inventory), FDiv(FFromInt(forecast), FFromInt(days)))
    ELSE FFromInt(0)

\* Line 97.
max_order(forecast, days) ==
    FMul(FFromInt(forecast), FDiv(FFromInt(shelf_life_days), FFromInt(days)))

recommended_order(forecast, days) ==
    order_for(forecast, days, current_stock_days(forecast, days), max_order(forecast, days))

\* Product.get_recommended_order(days); days >= 1.
get_recommended_order(days) ==
    Return(recommended_order(get_forecast(days, None, NoResponse).val, days))

\* ---------------------------------------------------------------------------
\* Supplier
\* ---------------------------------------------------------------------------
\* Supplier.__init__(id, name)
Supplier(id) ==
    [id |-> id, delivery_timelines |-> << >>, costs |-> << >>, quality_ratings |-> << >>]

average_delivery_time(self) ==
    IF self.delivery_timelines = << >> THEN None
    ELSE FDiv(FFromInt(Sum(self.delivery_timelines)), FFromInt(Len(self.delivery_timelines)))

\* average_cost reporting 0 for no data.
average_cost_zero(self) ==
    IF self.costs = << >> THEN FFromInt(0)
    ELSE FDiv(FFromInt(Sum(self.costs)), FFromInt(Len(self.costs)))

average_cost(self) ==
    IF self.costs = << >> THEN None
    ELSE FDiv(FFromInt(Sum(self.costs)), FFromInt(Len(self.costs)))

average_quality(self) ==
    IF self.quality_ratings = << >> THEN None
    ELSE FDiv(FFromInt(Sum(self.quality_ratings)), FFromInt(Len(self.quality_ratings)))

\* `x or 0`: None and 0.0 are falsy.
Or0(x) == IF x = None \/ x = FZero THEN FFromInt(0) ELSE x

\* Line 137.
weighted(quality, delivery, cost) ==
    FSub(FSub(FMul(quality, F0_5), FMul(delivery, F0_3)), FMul(cost, F0_2))

\* recommend_best_suppliers.score
score(supplier) ==
    weighted(Or0(average_quality(supplier)),
             Or0(average_delivery_time(supplier)),
             Or0(average_cost(supplier)))

\* sorted(xs, key=..., reverse=True) on the decorated list of <<key, x>>: a
\* stable sort, and reverse=True keeps the elements with equal keys in the
\* order of the input.  x goes behind every element whose key is >= its own.
\* InsertByKey that puts x in front of the elements with an equal key (the
\* order of an ascending sort, reversed).
RECURSIVE InsertByKeyUnstable(_, _)
InsertByKeyUnstable(done, x) ==
    IF done = << >> THEN << x >>
    ELSE IF FCmp(Head(done)[1], x[1]) > 0
    THEN << Head(done) >> \o InsertByKeyUnstable(Tail(done), x)
    ELSE << x >> \o done

RECURSIVE InsertByKey(_, _)
InsertByKey(done, x) ==
    IF done = << >> THEN << x >>
    ELSE IF FCmp(Head(done)[1], x[1]) >= 0
    THEN << Head(done) >> \o InsertByKey(Tail(done), x)
    ELSE << x >> \o done

RECURSIVE SortedReverse(_, _, _)
SortedReverse(keyed, i, done) ==
    IF i > Len(keyed) THEN done
    ELSE SortedReverse(keyed, i + 1, InsertByKey(done, keyed[i]))

\* [x for (key, x) in keyed]
Undecorated(keyed) == [i \in 1..Len(keyed) |-> keyed[i][2]]

recommend_best_suppliers(xs) ==
    Undecorated(SortedReverse([i \in 1..Len(xs) |-> << score(xs[i]), xs[i] >>], 1, << >>))

\* ---------------------------------------------------------------------------
\* The operations, as steps.  Every call leaves its name and arguments in
\* `last` and its outcome in `ret`.
\* ---------------------------------------------------------------------------
\* add_sale that restocks: the quantity is added to the inventory.
add_sale_restocking(quantity) ==
    /\ sales_history' = Append(sales_history, << clock, quantity >>)
    /\ clock' = clock + 1
    /\ inventory' = inventory + quantity
    /\ last' = [op |-> "add_sale", quantity |-> quantity]
    /\ ret' = Return(None)
    /\ UNCHANGED << name, shelf_life_days, suppliers, calls >>

\* add_sale with the inventory floored at zero.
add_sale_floored(quantity) ==
    /\ sales_history' = Append(sales_history, << clock, quantity >>)
    /\ clock' = clock + 1
    /\ inventory' = Max2(0, inventory - quantity)
    /\ last' = [op |-> "add_sale", quantity |-> quantity]
    /\ ret' = Return(None)
    /\ UNCHANGED << name, shelf_life_days, suppliers, calls >>

\* Product.add_sale(quantity)
add_sale(quantity) ==
    /\ sales_history' = Append(sales_history, << clock, quantity >>)
    /\ clock' = clock + 1
    /\ inventory' = inventory - quantity
    /\ last' = [op |-> "add_sale", quantity |-> quantity]
    /\ ret' = Return(None)
    /\ UNCHANGED << name, shelf_life_days, suppliers, calls >>

\* Product.get_forecast(days, location)
GetForecast(days, location, response) ==
    /\ last' = [op |-> "get_forecast", days |-> days, location |-> location,
                response |-> response]
    /\ ret' = get_forecast(days, location, response)
    /\ UNCHANGED << product_vars, suppliers, calls >>

\* Product.get_recommended_order(days)
GetRecommendedOrder(days) ==
    /\ last' = [op |-> "get_recommended_order", days |-> days]
    /\ ret' = get_recommended_order(days)
    /\ UNCHANGED << product_vars, suppliers, calls >>

\* record_delivery with the cost and the rating filed in each other's list.
record_delivery_misfiled(i, delivery_days, cost, quality_rating) ==
    /\ suppliers' = [suppliers EXCEPT
           ![i].delivery_timelines = Append(@, delivery_days),
           ![i].costs = Append(@, quality_rating),
           ![i].quality_ratings = Append(@, cost)]
    /\ calls' = [calls EXCEPT ![i] = Append(@, << delivery_days, cost, quality_rating >>)]
    /\ last' = [op |-> "record_delivery", supplier |-> i, delivery_days |-> delivery_days,
                cost |-> cost, quality_rating |-> quality_rating]
    /\ ret' = Return(None)
    /\ UNCHANGED product_vars

\* Supplier.record_delivery(delivery_days, cost, quality_rating) on suppliers[i]
record_delivery(i, delivery_days, cost, quality_rating) ==
    /\ suppliers' = [suppliers EXCEPT
           ![i].delivery_timelines = Append(@, delivery_days),
           ![i].costs = Append(@, cost),
           ![i].quality_ratings = Append(@, quality_rating)]
    /\ calls' = [calls EXCEPT ![i] = Append(@, << delivery_days, cost, quality_rating >>)]
    /\ last' = [op |-> "record_delivery", supplier |-> i, delivery_days |-> delivery_days,
                cost |-> cost, quality_rating |-> quality_rating]
    /\ ret' = Return(None)
    /\ UNCHANGED product_vars

AverageDeliveryTime(i) ==
    /\ last' = [op |-> "average_delivery_time", supplier |-> i]
    /\ ret' = Return(average_delivery_time(suppliers[i]))
    /\ UNCHANGED << product_vars, suppliers, calls >>

AverageCost(i) ==
    /\ last' = [op |-> "average_cost", supplier |-> i]
    /\ ret' = Return(average_cost(suppliers[i]))
    /\ UNCHANGED << product_vars, suppliers, calls >>

AverageQuality(i) ==
    /\ last' = [op |-> "average_quality", supplier |-> i]
    /\ ret' = Return(average_quality(suppliers[i]))
    /\ UNCHANGED << product_vars, suppliers, calls >>

\* RecommendBestSuppliers sorting the registry itself (list.sort).
RecommendBestSuppliersInPlace ==
    /\ last' = [op |-> "recommend_best_suppliers"]
    /\ ret' = Return(recommend_best_suppliers(suppliers))
    /\ suppliers' = recommend_best_suppliers(suppliers)
    /\ UNCHANGED << product_vars, calls >>

\* recommend_best_suppliers(list(suppliers.values()))
RecommendBestSuppliers ==
    /\ last' = [op |-> "recommend_best_suppliers"]
    /\ ret' = Return(recommend_best_suppliers(suppliers))
    /\ UNCHANGED << product_vars, suppliers, calls >>

\* ---------------------------------------------------------------------------
\* Inputs
\* ---------------------------------------------------------------------------
WeatherBody(temp) ==
    [main    |-> [temp |-> temp, humidity |-> 40],
     weather |-> << [main |-> "Clear", description |-> "clear sky"] >>]

\* What the weather service may answer: no answer (a transport error), a
\* reading (31 degrees), an error document, a body that is not JSON, a document
\* without readings, and a reading that is not a number.
Responses ==
    { [transport |-> "error"],
      [transport |-> "ok", status_code |-> 200, json |-> WeatherBody(Num(31))],
      [transport |-> "ok", status_code |-> 404,
       json |-> [cod |-> "404", message |-> "city not found"]],
      [transport |-> "ok", status_code |-> 502, json |-> None],
      [transport |-> "ok", status_code |-> 200, json |-> [cod |-> 200]],
      [transport |-> "ok", status_code |-> 200, json |-> WeatherBody(None)] }

\* The Product and the Suppliers right after construction.
Constructed(names, shelf_lives, n) ==
    /\ name \in names
    /\ shelf_life_days \in shelf_lives
    /\ inventory = 0
    /\ sales_history = << >>
    /\ clock = 0
    /\ suppliers = [i \in 1..n |-> Supplier(i)]
    /\ calls = [i \in 1..n |-> << >>]
    /\ last = [op |-> "__init__"]
    /\ ret = Return(None)

\* The number of record_delivery calls so far.
Delivered == Sum([i \in 1..Len(suppliers) |-> Len(suppliers[i].delivery_timelines)])

\* ---------------------------------------------------------------------------
\* Spec: the program.  One Product and the registry of Suppliers, after
\* construction; any call may follow any other (the application runs one call
\* at a time).
\* ---------------------------------------------------------------------------
MaxSales == 2

MaxDeliveries == 1

NumSuppliers == 2

Names == {"Apple", "Ice Cream"}

ShelfLives == {2}

SaleQuantities == {0, 2}

Days == {1, 3}

\* delivery_days, cost, quality_rating (1..5)
DeliveryArgs == {<< 1, 0, 5 >>}

Init == Constructed(Names, ShelfLives, NumSuppliers)

ProductCalls ==
    \/ \E quantity \in SaleQuantities :
          Len(sales_history) < MaxSales /\ add_sale(quantity)
    \/ \E days \in Days : GetForecast(days, None, NoResponse)
    \/ \E days \in Days, response \in Responses :
          GetForecast(days, Str("London"), response)
    \/ \E days \in Days : GetRecommendedOrder(days)

SupplierCalls ==
    \/ \E i \in 1..Len(suppliers), a \in DeliveryArgs :
          Delivered < MaxDeliveries /\ record_delivery(i, a[1], a[2], a[3])
    \/ \E i \in 1..Len(suppliers) : AverageDeliveryTime(i)
    \/ \E i \in 1..Len(suppliers) : AverageCost(i)
    \/ \E i \in 1..Len(suppliers) : AverageQuality(i)
    \/ RecommendBestSuppliers

Next == ProductCalls \/ SupplierCalls

Spec == Init /\ [][Next]_vars

\* ---------------------------------------------------------------------------
\* SpecSuppliers: the supplier ledger and the ranking, on more suppliers and
\* more deliveries; the Product is left as constructed.
\* ---------------------------------------------------------------------------
MaxRankDeliveries == 3

NumRanked == 3

RankDeliveryArgs == {<< 2, 100, 5 >>, << 3, 120, 4 >>}

SuppliersInit == Constructed({"Apple"}, {7}, NumRanked)

SuppliersNext ==
    \/ \E i \in 1..Len(suppliers), a \in RankDeliveryArgs :
          Delivered < MaxRankDeliveries /\ record_delivery(i, a[1], a[2], a[3])
    \/ \E i \in 1..Len(suppliers) : AverageDeliveryTime(i)
    \/ \E i \in 1..Len(suppliers) : AverageCost(i)
    \/ \E i \in 1..Len(suppliers) : AverageQuality(i)
    \/ RecommendBestSuppliers

SpecSuppliers == SuppliersInit /\ [][SuppliersNext]_vars

\* ---------------------------------------------------------------------------
\* SpecOrder: the reorder quantity.  add_sale takes any int: a negative
\* quantity (a return) raises the inventory above zero.
\* ---------------------------------------------------------------------------
MaxOrderSales == 3

OrderQuantities == {-3, 0, 2, 10}

OrderShelfLives == {1, 2, 7}

OrderDays == {1, 2, 3, 7, 8}

OrderInit == Constructed({"Apple"}, OrderShelfLives, 0)

OrderNext ==
    \/ \E quantity \in OrderQuantities :
          Len(sales_history) < MaxOrderSales /\ add_sale(quantity)
    \/ \E days \in OrderDays : GetRecommendedOrder(days)

SpecOrder == OrderInit /\ [][OrderNext]_vars

\* ---------------------------------------------------------------------------
\* SpecTrend: one get_forecast call on a Product whose sales history is drawn
\* from the histories made of up to MaxLead sales of 5 followed by two runs of
\* up to MaxRun equal sales each (every one of them a history that add_sale
\* calls build), and the example of inventory.py's main block.
\* ---------------------------------------------------------------------------
MaxLead == 2

MaxRun == 16

TrendQuantities == {0, 1, 3}

TrendDays == {1, 7, 8}

ExampleSales == << 10, 15, 12 >>

Run(quantity, n) == [i \in 1..n |-> quantity]

\* The sales_history after add_sale(qs[1]), ..., add_sale(qs[n]).
Recorded(qs) == [i \in 1..Len(qs) |-> << i - 1, qs[i] >>]

TrendSales ==
    { Run(5, l) \o Run(a, j) \o Run(b, k) :
        l \in 0..MaxLead, j \in 0..MaxRun, k \in 0..MaxRun,
        a \in TrendQuantities, b \in TrendQuantities }
    \cup { ExampleSales }

TrendInit ==
    /\ name = "Apple"
    /\ shelf_life_days = 7
    /\ \E qs \in TrendSales :
          /\ sales_history = Recorded(qs)
          /\ inventory = 0 - Sum(qs)
          /\ clock = Len(qs)
    /\ suppliers = << >>
    /\ calls = << >>
    /\ last = [op |-> "__init__"]
    /\ ret = Return(None)

TrendNext ==
    \E days \in TrendDays : last.op = "__init__" /\ GetForecast(days, None, NoResponse)

SpecTrend == TrendInit /\ [][TrendNext]_vars

\* ---------------------------------------------------------------------------
\* Properties
\* ---------------------------------------------------------------------------
NoLocation == last.op = "get_forecast" /\ ~Truthy(last.location)

SoldQuantities == Quantities(sales_history)

\* C1: get_forecast without a location returns 0 while no sale has been
\* recorded and an integer >= 1 once one has: the clamp to 1 comes last.
C1_ForecastZeroOnlyWithoutSales ==
    NoLocation =>
        /\ ret.exc = ""
        /\ sales_history = << >> => ret.val = 0
        /\ sales_history # << >> => ret.val >= 1

\* Sales were recorded, all of quantity 0: the clamp makes the forecast 1.
C1_Witness ==
    /\ NoLocation
    /\ sales_history # << >>
    /\ Sum(SoldQuantities) = 0
    /\ ret = Return(1)

\* The lookup failed: no answer, an error status, a body that is not JSON, or
\* a document without a numeric temperature.
WeatherFailed(response) ==
    \/ response.transport # "ok"
    \/ response.status_code # 200
    \/ response.json = None
    \/ "main" \notin DOMAIN response.json
    \/ "temp" \notin DOMAIN response.json.main
    \/ "num" \notin DOMAIN response.json.main.temp

\* C2: with a location and a non-empty history, a failed weather lookup is no
\* reading: get_forecast raises nothing and returns what it returns without a
\* location.
C2_WeatherFailureIsNoReading ==
    ( /\ last.op = "get_forecast"
      /\ Truthy(last.location)
      /\ sales_history # << >>
      /\ WeatherFailed(last.response) )
    => ret = get_forecast(last.days, None, NoResponse)

\* C3: the three lists of a supplier have the length of the number of its
\* record_delivery calls, and index k holds the arguments of the k-th call.
C3_ParallelLedgers ==
    \A i \in 1..Len(suppliers) :
        /\ Len(suppliers[i].delivery_timelines) = Len(calls[i])
        /\ Len(suppliers[i].costs) = Len(calls[i])
        /\ Len(suppliers[i].quality_ratings) = Len(calls[i])
        /\ \A k \in 1..Len(calls[i]) :
              << suppliers[i].delivery_timelines[k], suppliers[i].costs[k],
                 suppliers[i].quality_ratings[k] >> = calls[i][k]

\* A supplier with three deliveries, not all alike.
C3_Witness ==
    \E i \in 1..Len(suppliers) :
        /\ Len(suppliers[i].costs) = 3
        /\ calls[i][1] # calls[i][2]
        /\ calls[i][2] # calls[i][3]

\* C4: add_sale(quantity) appends one entry of that quantity to sales_history,
\* keeps the earlier entries, and lowers inventory by quantity (no floor at
\* zero); no other call changes sales_history or inventory.
C4_AddSaleAppendsAndDecrements ==
    [][ IF last'.op = "add_sale"
        THEN /\ Len(sales_history') = Len(sales_history) + 1
             /\ SubSeq(sales_history', 1, Len(sales_history)) = sales_history
             /\ sales_history'[Len(sales_history')][2] = last'.quantity
             /\ inventory' = inventory - last'.quantity
        ELSE /\ sales_history' = sales_history
             /\ inventory' = inventory ]_vars

\* A second sale has just been recorded and the inventory is below zero.
C4_Witness ==
    /\ last.op = "add_sale"
    /\ last.quantity > 0
    /\ Len(sales_history) = 2
    /\ inventory < 0

\* score = 0.5 * avgQuality - 0.3 * avgDeliveryTime - 0.2 * avgCost, a missing
\* average counted as 0.
ClaimedScore(supplier) ==
    FSub(FSub(FMul(IF supplier.quality_ratings = << >> THEN FZero
                   ELSE average_quality(supplier), F0_5),
              FMul(IF supplier.delivery_timelines = << >> THEN FZero
                   ELSE average_delivery_time(supplier), F0_3)),
         FMul(IF supplier.costs = << >> THEN FZero ELSE average_cost(supplier), F0_2))

\* C5: recommend_best_suppliers returns a permutation of its input in
\* non-increasing order of score, suppliers of equal score in the order of the
\* input (ids are registry positions); deliveries [2,3], costs [100,120],
\* ratings [5,4] score -20.5.
C5_RankingIsStableDescending ==
    last.op = "recommend_best_suppliers" =>
        /\ Len(ret.val) = Len(suppliers)
        /\ \A i \in 1..Len(suppliers) : \E j \in 1..Len(ret.val) : ret.val[j] = suppliers[i]
        /\ \A i, j \in 1..Len(ret.val) :
              i < j =>
                /\ FCmp(ClaimedScore(ret.val[i]), ClaimedScore(ret.val[j])) >= 0
                /\ FCmp(ClaimedScore(ret.val[i]), ClaimedScore(ret.val[j])) = 0
                      => ret.val[i].id < ret.val[j].id
        /\ \A i \in 1..Len(suppliers) :
              calls[i] = << << 2, 100, 5 >>, << 3, 120, 4 >> >>
                => ClaimedScore(suppliers[i]) = FDiv(FFromInt(-41), FFromInt(2))

\* The ranking moved a supplier ahead of two that tie, each with a delivery.
C5_Witness ==
    /\ last.op = "recommend_best_suppliers"
    /\ ret.val # suppliers
    /\ \E i, j \in 1..Len(ret.val) :
          /\ i < j
          /\ ret.val[i].costs # << >>
          /\ ret.val[j].costs # << >>
          /\ FCmp(ClaimedScore(ret.val[i]), ClaimedScore(ret.val[j])) = 0

\* C6: get_recommended_order(days) returns r with
\* 0 <= r <= forecast * shelf_life_days / days, forecast = get_forecast(days).
C6_OrderWithinShelfLifeCap ==
    last.op = "get_recommended_order" =>
        /\ ret.exc = ""
        /\ ret.val >= 0
        /\ ret.val * last.days
              <= get_forecast(last.days, None, NoResponse).val * shelf_life_days

\* Oversold stock, and the cap decided the order: it is below forecast - inventory.
C6_Witness ==
    /\ last.op = "get_recommended_order"
    /\ inventory < 0
    /\ ret.val > 0
    /\ ret.val < get_forecast(last.days, None, NoResponse).val - inventory

\* The arithmetic mean, or None for no data.
MeanOrNone(xs) ==
    IF xs = << >> THEN None ELSE FDiv(FFromInt(Sum(xs)), FFromInt(Len(xs)))

\* C7: each average returns None (not 0) exactly for an empty list and the mean
\* otherwise, also right after a ranking has counted the missing averages as 0.
C7_AveragesKeepNoDataSentinel ==
    /\ last.op = "average_delivery_time" =>
          ret = Return(MeanOrNone(suppliers[last.supplier].delivery_timelines))
    /\ last.op = "average_cost" =>
          ret = Return(MeanOrNone(suppliers[last.supplier].costs))
    /\ last.op = "average_quality" =>
          ret = Return(MeanOrNone(suppliers[last.supplier].quality_ratings))
    /\ last.op = "recommend_best_suppliers" =>
          \A i \in 1..Len(suppliers) :
              /\ average_delivery_time(suppliers[i]) = MeanOrNone(suppliers[i].delivery_timelines)
              /\ average_cost(suppliers[i]) = MeanOrNone(suppliers[i].costs)
              /\ average_quality(suppliers[i]) = MeanOrNone(suppliers[i].quality_ratings)

\* average_cost has just returned None for a supplier without deliveries,
\* while another supplier's costs [100, 120] average 110.
C7_Witness ==
    /\ last.op = "average_cost"
    /\ suppliers[last.supplier].costs = << >>
    /\ ret = Return(None)
    /\ \E j \in 1..Len(suppliers) :
          suppliers[j].costs = << 100, 120 >> /\ average_cost(suppliers[j]) = FFromInt(110)

\* The quantities of the recent window: the last min(30, len) entries.
RecentWindow ==
    [i \in 1..Min2(30, Len(sales_history)) |->
        sales_history[Len(sales_history) - Min2(30, Len(sales_history)) + i][2]]

WindowMean == FDiv(FFromInt(Sum(RecentWindow)), FFromInt(Len(RecentWindow)))

FirstHalfSum == Sum(SubSeq(RecentWindow, 1, Len(RecentWindow) \div 2))

SecondHalfSum == Sum(SubSeq(RecentWindow, Len(RecentWindow) \div 2 + 1, Len(RecentWindow)))

\* max(1, trunc(mean * days * buffer))
Forecast(mean, days, buffer) == Max2(1, FTrunc(FMul(FMul(mean, FFromInt(days)), buffer)))

\* C8: the trend factor is applied iff the recent window has at least 14
\* entries: with 13 or fewer the result is max(1, trunc(mean * days * buffer));
\* with more the mean is first multiplied by the second-half sum over the
\* first-half sum if the latter is > 0, and by 1 if not.
C8_TrendFromFourteenEntries ==
    (NoLocation /\ sales_history # << >>) =>
        ret = Return(Forecast(
                IF Len(RecentWindow) <= 13 THEN WindowMean
                ELSE IF FirstHalfSum > 0
                THEN FMul(WindowMean, FDiv(FFromInt(SecondHalfSum), FFromInt(FirstHalfSum)))
                ELSE FMul(WindowMean, FFromInt(1)),
                last.days, buffer_factor(last.days)))

\* Exactly 14 entries, and the trend factor changed the forecast.
C8_Witness ==
    /\ NoLocation
    /\ Len(sales_history) = 14
    /\ FirstHalfSum > 0
    /\ ret # Return(Forecast(WindowMean, last.days, buffer_factor(last.days)))

\* C9: with 1 to 13 sales and no location, get_forecast(days) is
\* max(1, trunc(mean * days * b)), b = 1.1 for days <= shelf_life_days and 1.2
\* for days > shelf_life_days; sales [10, 15, 12] with shelf life 7 give
\* get_forecast(7) = 94.
C9_BufferByShelfLife ==
    (NoLocation /\ Len(sales_history) >= 1 /\ Len(sales_history) <= 13) =>
        /\ last.days <= shelf_life_days => ret = Return(Forecast(WindowMean, last.days, F1_1))
        /\ last.days > shelf_life_days => ret = Return(Forecast(WindowMean, last.days, F1_2))
        /\ (SoldQuantities = << 10, 15, 12 >> /\ shelf_life_days = 7 /\ last.days = 7)
              => ret = Return(94)

\* The example, at the boundary days = shelf_life_days.
C9_Witness ==
    /\ NoLocation
    /\ SoldQuantities = << 10, 15, 12 >>
    /\ last.days = shelf_life_days
    /\ ret = Return(94)

ReadOps ==
    { "get_forecast", "get_recommended_order", "average_delivery_time",
      "average_cost", "average_quality", "recommend_best_suppliers" }

\* C10: get_forecast, get_recommended_order, the three averages and
\* recommend_best_suppliers change neither the product's sales_history and
\* inventory nor the suppliers' lists nor the order of the supplier list.
C10_ReadsChangeNothing ==
    [][ last'.op \in ReadOps =>
          /\ sales_history' = sales_history
          /\ inventory' = inventory
          /\ suppliers' = suppliers ]_vars

\* A ranking that differs from the registry's order has been returned.
C10_Witness ==
    /\ last.op = "recommend_best_suppliers"
    /\ ret.val # suppliers
    /\ sales_history # << >>

\* Every recorded quantity is at least 1 (what the sale form accepts).
SalesAtLeastOne == \A k \in 1..Len(sales_history) : sales_history[k][2] >= 1

\* Line 90 of get_recommended_order(days): current_stock_days >= days.
StockCoversHorizon(days) ==
    FCmp(current_stock_days(get_forecast(days, None, NoResponse).val, days),
         FFromInt(days)) >= 0

\* C11: inventory is minus the sum of the quantities in sales_history; hence
\* with quantities >= 1 it is <= 0, and once a sale has been recorded
\* get_recommended_order(days) does not return through the branch
\* 'current stock covers the horizon'.
C11_InventoryIsMinusSales ==
    /\ inventory = 0 - Sum(SoldQuantities)
    /\ SalesAtLeastOne => inventory <= 0
    /\ (last.op = "get_recommended_order" /\ sales_history # << >> /\ SalesAtLeastOne)
          => ~StockCoversHorizon(last.days)

\* An order has been computed after two sales of at least 1 each: the stock
\* is oversold and the order is not 0.
C11_Witness ==
    /\ last.op = "get_recommended_order"
    /\ Len(sales_history) >= 2
    /\ SalesAtLeastOne
    /\ inventory < 0
    /\ ~StockCoversHorizon(last.days)
    /\ ret.val >= 1

====
